---- MODULE Spec2Model ----
(***************************************************************************)
(* Model of scripts/create_iosv_disk.py: a top-to-bottom script that       *)
(* checks for mkfs.vfat, allocates a zero-filled image file, builds a boot *)
(* sector in a bytearray, writes it at offset 0 of the image and runs the  *)
(* external formatter.  One action per statement of the script; the        *)
(* outcomes of the operating system (open/write failures, the formatter's  *)
(* exit code) are chosen nondeterministically.                             *)
(***************************************************************************)
EXTENDS Integers, Sequences, FiniteSets, TLC

VARIABLES
    pc,               \* the statement the script executes next
    toolPresent,      \* what shutil.which("mkfs.vfat") finds
    preexisting,      \* the file at image_file_path when the run starts
    file,             \* the file at image_file_path now
    boot_sector,      \* the bytearray boot_sector
    fieldWrites,      \* history of the assignments made to boot_sector
    steps,            \* the steps of the script that completed, in order
    formatterInvoked, \* subprocess.run was called
    formatterRc,      \* <<>> or <<return code of mkfs.vfat>>
    exitStatus,       \* <<>> while running, <<status>> once exited
    raised,           \* the exception that ended the run, or "none"
    stdout            \* the messages printed

vars == <<pc, toolPresent, preexisting, file, boot_sector, fieldWrites, steps,
          formatterInvoked, formatterRc, exitStatus, raised, stdout>>

----------------------------------------------------------------------------
(* Bounds of the model *)

\* largest number of non-zero bytes in the pre-existing file
MaxOldBytes == 2
\* pre-existing lengths within MaxDelta of image_size are tried
MaxDelta == 1

----------------------------------------------------------------------------
(* Program constants *)

image_size == 131040 * 512

\* b"MSDOS5.0" (eight bytes)
oem_id8 == <<77, 83, 68, 79, 83, 53, 46, 48>>

\* b"MSDOS5.  " (nine bytes)
oem_id == <<77, 83, 68, 79, 83, 53, 46, 32, 32>>

\* b"\350       " (octal 350 and seven spaces: eight bytes)
volume_label == <<232, 32, 32, 32, 32, 32, 32, 32>>

\* b"\x55\xaa"
fat_signature == <<85, 170>>

----------------------------------------------------------------------------
(* Files: a length and the set of <<offset, value>> of the non-zero bytes; *)
(* every other byte below the length is zero.                              *)

Max(a, b) == IF a >= b THEN a ELSE b
Min(a, b) == IF a <= b THEN a ELSE b

NoFile == [exists |-> FALSE, len |-> 0, nz |-> {}]

ByteAt(f, o) ==
    IF \E p \in f.nz : p[1] = o
    THEN (CHOOSE p \in f.nz : p[1] = o)[2]
    ELSE 0

\* a mode that creates the file but keeps what it holds
OpenWBKeeps(f) == [exists |-> TRUE, len |-> f.len, nz |-> f.nz]

\* open(path, "wb"): create the file or truncate it to length zero
OpenWB(f) == [exists |-> TRUE, len |-> 0, nz |-> {}]

\* a mode that truncates, as "wb" does
OpenRWTruncates(f) == [exists |-> TRUE, len |-> 0, nz |-> {}]

\* open(path, "r+b"): the file must exist; content and length are kept
OpenRW(f) == f

\* write of the bytes data (a sequence) at position pos
WriteAt(f, pos, data) ==
    [exists |-> TRUE,
     len    |-> Max(f.len, pos + Len(data)),
     nz     |-> {p \in f.nz : p[1] < pos \/ p[1] >= pos + Len(data)}
                \cup {<<pos + i - 1, data[i]>> :
                        i \in {j \in 1..Len(data) : data[j] # 0}}]

\* write of n copies of the byte b at position pos (b"\x00" * n)
WriteRun(f, pos, b, n) ==
    [exists |-> TRUE,
     len    |-> Max(f.len, pos + n),
     nz     |-> {p \in f.nz : p[1] < pos \/ p[1] >= pos + n}
                \cup (IF b = 0 THEN {} ELSE {<<o, b>> : o \in pos..(pos + n - 1)})]

----------------------------------------------------------------------------
(* bytearray operations; offsets are zero-based as in the script *)

bytearray(n) == [i \in 1..n |-> 0]

At(buf, i) == buf[i + 1]

\* buf[lo:hi] = data: the slice is replaced by data, whatever its length
SliceAssign(buf, lo, hi, data) ==
    LET start == Min(lo, Len(buf))
        stop  == Max(Min(hi, Len(buf)), start)
    IN  SubSeq(buf, 1, start) \o data \o SubSeq(buf, stop + 1, Len(buf))

\* buf[i] = v raises IndexError / ValueError unless this holds
CanSetItem(buf, i, v) == i >= 0 /\ i < Len(buf) /\ v \in 0..255

SetItem(buf, i, v) == [buf EXCEPT ![i + 1] = v]

\* byte k (0-based) of the little-endian encoding of v
LEByte(v, k) ==
    IF k = 0 THEN v % 256
    ELSE IF k = 1 THEN (v \div 256) % 256
    ELSE IF k = 2 THEN (v \div 65536) % 256
    ELSE (v \div 16777216) % 256

\* struct.pack_into raises struct.error unless this holds ("<H" takes
\* 0..65535; "<I" takes 0..2^32-1, which every integer of the model is below)
CanPack(size, buf, off, v) ==
    off >= 0 /\ off + size <= Len(buf) /\ v >= 0 /\ (size = 2 => v < 65536)

\* struct.pack_into("<H" | "<I", buf, off, v); size is 2 or 4
pack_into(size, buf, off, v) ==
    [i \in 1..Len(buf) |->
        IF i > off /\ i <= off + size THEN LEByte(v, i - 1 - off) ELSE buf[i]]

----------------------------------------------------------------------------
(* The files that may be at image_file_path when the run starts *)

OldLens == {0, 1, 511, 512, 513} \cup ((image_size - MaxDelta)..(image_size + MaxDelta))

ProbeOffsets(n) == {o \in {0, 21, 510, 511, 512, n - 1} : o >= 0 /\ o < n}

OldFilesOfLen(n) ==
    {[exists |-> TRUE, len |-> n, nz |-> {<<o, 255>> : o \in S}] :
        S \in {T \in SUBSET ProbeOffsets(n) : Cardinality(T) <= MaxOldBytes}}

OldFiles == {NoFile} \cup UNION {OldFilesOfLen(n) : n \in OldLens}

\* lengths at which a failing write of the zeros may stop
PartialAllocLens == {0, 511, 512, image_size - 1}

\* what mkfs.vfat may have done to the image when it returns
FormatterEffects(f) ==
    {f,
     WriteAt(f, 0, <<235, 60, 144>>),
     WriteAt(WriteAt(f, 0, <<235, 60, 144>>), 8 * 512, <<248, 255, 255, 255>>)}

NonZeroRcs == {1, 2}

----------------------------------------------------------------------------
Init ==
    /\ pc = "check"
    /\ toolPresent \in BOOLEAN
    /\ preexisting \in OldFiles
    /\ file = preexisting
    /\ boot_sector = <<>>
    /\ fieldWrites = <<>>
    /\ steps = <<>>
    /\ formatterInvoked = FALSE
    /\ formatterRc = <<>>
    /\ exitStatus = <<>>
    /\ raised = "none"
    /\ stdout = <<>>

\* the interpreter ends the process: sys.exit(status), or an exception
\* nobody catches (status 1), or the end of the script (status 0)
Exit(status, exc) ==
    /\ pc' = "exited"
    /\ exitStatus' = <<status>>
    /\ raised' = exc

\* the statement completed and control moves to the next one
Goto(next) ==
    /\ pc' = next
    /\ UNCHANGED <<exitStatus, raised>>

(* lines 11-14: the dependency check *)
\* the check passes
CheckFound ==
    /\ pc = "check"
    /\ toolPresent
    /\ Goto("allocate")
    /\ steps' = Append(steps, "check")
    /\ UNCHANGED <<toolPresent, preexisting, file, boot_sector, fieldWrites,
                   formatterInvoked, formatterRc, stdout>>

\* lines 12-13 with the sys.exit(1) left out
CheckMissingFallsThrough ==
    /\ pc = "check"
    /\ ~toolPresent
    /\ Goto("allocate")
    /\ stdout' = Append(stdout, "mkfs.vfat command not found")
    /\ UNCHANGED <<toolPresent, preexisting, file, boot_sector, fieldWrites,
                   steps, formatterInvoked, formatterRc>>

\* lines 12-14: the message is printed and the process exits with status 1
CheckMissing ==
    /\ pc = "check"
    /\ ~toolPresent
    /\ stdout' = Append(stdout, "mkfs.vfat command not found")
    /\ Exit(1, "SystemExit")
    /\ UNCHANGED <<toolPresent, preexisting, file, boot_sector, fieldWrites,
                   steps, formatterInvoked, formatterRc>>

(* lines 20-21: the image is allocated *)
\* open() raises (permission denied, the path is a directory, ...)
AllocateOpenFails ==
    /\ pc = "allocate"
    /\ Exit(1, "OSError")
    /\ UNCHANGED <<toolPresent, preexisting, file, boot_sector, fieldWrites,
                   steps, formatterInvoked, formatterRc, stdout>>

\* the failure of the write swallowed: the script goes on
AllocateWriteFailsIgnored ==
    /\ pc = "allocate"
    /\ \E k \in PartialAllocLens :
          file' = WriteRun(OpenWB(file), 0, 0, k)
    /\ Goto("new_buffer")
    /\ steps' = Append(steps, "allocate")
    /\ UNCHANGED <<toolPresent, preexisting, boot_sector, fieldWrites,
                   formatterInvoked, formatterRc, stdout>>

\* the write stops part-way (no space left) and raises; the partial file stays
AllocateWriteFails ==
    /\ pc = "allocate"
    /\ \E k \in PartialAllocLens :
          file' = WriteRun(OpenWB(file), 0, 0, k)
    /\ Exit(1, "OSError")
    /\ UNCHANGED <<toolPresent, preexisting, boot_sector, fieldWrites,
                   steps, formatterInvoked, formatterRc, stdout>>

\* the file is created or truncated and image_size zero bytes are written
Allocate ==
    /\ pc = "allocate"
    /\ file' = WriteRun(OpenWB(file), 0, 0, image_size)
    /\ Goto("new_buffer")
    /\ steps' = Append(steps, "allocate")
    /\ UNCHANGED <<toolPresent, preexisting, boot_sector, fieldWrites,
                   formatterInvoked, formatterRc, stdout>>

----------------------------------------------------------------------------
(* lines 24-69: the boot sector is built in the bytearray boot_sector *)

\* what one assignment stored: the bytes [lo, hi) and the buffer's length
\* before and after it
FieldWrite(name, lo, n, newbuf) ==
    [field |-> name, lo |-> lo, hi |-> lo + n,
     lenBefore |-> Len(boot_sector), lenAfter |-> Len(newbuf)]

\* one statement of the construction: it stores newbuf, or raises when the
\* arguments are rejected (struct.error, IndexError), which nobody catches
BuildStep(here, next, ok, newbuf, lo, n) ==
    /\ IF ok
       THEN /\ boot_sector' = newbuf
            /\ fieldWrites' = Append(fieldWrites, FieldWrite(here, lo, n, newbuf))
            /\ Goto(next)
       ELSE /\ Exit(1, "error")
            /\ UNCHANGED <<boot_sector, fieldWrites>>
    /\ UNCHANGED <<toolPresent, preexisting, file, steps, formatterInvoked,
                   formatterRc, stdout>>

SliceStep(here, next, lo, hi, data) ==
    BuildStep(here, next, TRUE, SliceAssign(boot_sector, lo, hi, data),
              Min(lo, Len(boot_sector)), Len(data))

PackStep(here, next, size, off, v) ==
    BuildStep(here, next, CanPack(size, boot_sector, off, v),
              pack_into(size, boot_sector, off, v), off, size)

ItemStep(here, next, i, v) ==
    BuildStep(here, next, CanSetItem(boot_sector, i, v),
              SetItem(boot_sector, i, v), i, 1)

\* line 24
NewBuffer ==
    /\ pc = "new_buffer"
    /\ boot_sector' = bytearray(512)
    /\ Goto("oem_id")
    /\ UNCHANGED <<toolPresent, preexisting, file, fieldWrites, steps,
                   formatterInvoked, formatterRc, stdout>>

\* line 27
OemId ==
    /\ pc = "oem_id"
    /\ SliceStep("oem_id", "bytes_per_sector", 3, 11, oem_id)

\* line 30
BytesPerSector ==
    /\ pc = "bytes_per_sector"
    /\ PackStep("bytes_per_sector", "sectors_per_cluster", 2, 11, 512)

\* line 33
SectorsPerCluster ==
    /\ pc = "sectors_per_cluster"
    /\ ItemStep("sectors_per_cluster", "reserved_sectors", 13, 8)

\* line 36
ReservedSectors ==
    /\ pc = "reserved_sectors"
    /\ PackStep("reserved_sectors", "num_fats", 2, 14, 8)

\* line 39
NumFats ==
    /\ pc = "num_fats"
    /\ ItemStep("num_fats", "max_root_entries", 16, 2)

\* line 42
MaxRootEntries ==
    /\ pc = "max_root_entries"
    /\ PackStep("max_root_entries", "total_sectors", 2, 17, 512)

\* line 45
TotalSectors ==
    /\ pc = "total_sectors"
    /\ PackStep("total_sectors", "media_descriptor", 4, 19, 131040)

\* line 48 left out
MediaDescriptorSkipped ==
    /\ pc = "media_descriptor"
    /\ BuildStep("media_descriptor", "sectors_per_fat", TRUE, boot_sector, 21, 0)

\* line 48
MediaDescriptor ==
    /\ pc = "media_descriptor"
    /\ ItemStep("media_descriptor", "sectors_per_fat", 21, 248)

\* line 51
SectorsPerFat ==
    /\ pc = "sectors_per_fat"
    /\ PackStep("sectors_per_fat", "sectors_per_track", 2, 22, 64)

\* line 54
SectorsPerTrack ==
    /\ pc = "sectors_per_track"
    /\ PackStep("sectors_per_track", "num_heads", 2, 24, 63)

\* line 57
NumHeads ==
    /\ pc = "num_heads"
    /\ PackStep("num_heads", "hidden_sectors", 2, 26, 16)

\* line 60
HiddenSectors ==
    /\ pc = "hidden_sectors"
    /\ PackStep("hidden_sectors", "volume_serial", 4, 28, 1)

\* line 63 (0x24E82400)
VolumeSerial ==
    /\ pc = "volume_serial"
    /\ PackStep("volume_serial", "volume_label", 4, 39, 619193344)

\* line 66
VolumeLabel ==
    /\ pc = "volume_label"
    /\ SliceStep("volume_label", "fat_signature", 43, 54, volume_label)

\* line 69
FatSignature ==
    /\ pc = "fat_signature"
    /\ SliceStep("fat_signature", "stamp", 510, 512, fat_signature)

----------------------------------------------------------------------------
(* lines 71-74: the boot sector is written at offset 0 of the image *)

\* lengths at which a failing write of the boot sector may stop
PartialStampLens == {0, 21, 511}

StampOpenFails ==
    /\ pc = "stamp"
    /\ Exit(1, "OSError")
    /\ UNCHANGED <<toolPresent, preexisting, file, boot_sector, fieldWrites,
                   steps, formatterInvoked, formatterRc, stdout>>

StampWriteFails ==
    /\ pc = "stamp"
    /\ \E k \in PartialStampLens :
          /\ k < Len(boot_sector)
          /\ file' = WriteAt(OpenRW(file), 0, SubSeq(boot_sector, 1, k))
    /\ Exit(1, "OSError")
    /\ UNCHANGED <<toolPresent, preexisting, boot_sector, fieldWrites,
                   steps, formatterInvoked, formatterRc, stdout>>

Stamp ==
    /\ pc = "stamp"
    /\ file' = WriteAt(OpenRW(file), 0, boot_sector)
    /\ Goto("format")
    /\ steps' = Append(steps, "stamp")
    /\ UNCHANGED <<toolPresent, preexisting, boot_sector, fieldWrites,
                   formatterInvoked, formatterRc, stdout>>

----------------------------------------------------------------------------
(* lines 76-81: mkfs.vfat -I is run on the image *)

\* the program cannot be started: an OSError, which the except clause
\* (CalledProcessError only) does not catch
FormatLaunchFails ==
    /\ pc = "format"
    /\ formatterInvoked' = TRUE
    /\ Exit(1, "OSError")
    /\ UNCHANGED <<toolPresent, preexisting, file, boot_sector, fieldWrites,
                   steps, formatterRc, stdout>>

\* lines 79-81 with the sys.exit(1) left out
FormatNonZeroNoExit ==
    /\ pc = "format"
    /\ formatterInvoked' = TRUE
    /\ \E rc \in NonZeroRcs : formatterRc' = <<rc>>
    /\ file' \in FormatterEffects(file)
    /\ stdout' = Append(stdout, "Error formatting disk")
    /\ Exit(0, "none")
    /\ UNCHANGED <<toolPresent, preexisting, boot_sector, fieldWrites, steps>>

\* check=True turns a non-zero return code into CalledProcessError
FormatNonZero ==
    /\ pc = "format"
    /\ formatterInvoked' = TRUE
    /\ \E rc \in NonZeroRcs : formatterRc' = <<rc>>
    /\ file' \in FormatterEffects(file)
    /\ stdout' = Append(stdout, "Error formatting disk")
    /\ Exit(1, "SystemExit")
    /\ UNCHANGED <<toolPresent, preexisting, boot_sector, fieldWrites, steps>>

\* return code 0: the script runs off its end
FormatOk ==
    /\ pc = "format"
    /\ formatterInvoked' = TRUE
    /\ formatterRc' = <<0>>
    /\ file' \in FormatterEffects(file)
    /\ steps' = Append(steps, "format")
    /\ Exit(0, "none")
    /\ UNCHANGED <<toolPresent, preexisting, boot_sector, fieldWrites, stdout>>

----------------------------------------------------------------------------
Next ==
    \/ CheckFound
    \/ CheckMissing
    \/ AllocateOpenFails
    \/ AllocateWriteFails
    \/ Allocate
    \/ NewBuffer
    \/ OemId
    \/ BytesPerSector
    \/ SectorsPerCluster
    \/ ReservedSectors
    \/ NumFats
    \/ MaxRootEntries
    \/ TotalSectors
    \/ MediaDescriptor
    \/ SectorsPerFat
    \/ SectorsPerTrack
    \/ NumHeads
    \/ HiddenSectors
    \/ VolumeSerial
    \/ VolumeLabel
    \/ FatSignature
    \/ StampOpenFails
    \/ StampWriteFails
    \/ Stamp
    \/ FormatLaunchFails
    \/ FormatNonZero
    \/ FormatOk

Spec == Init /\ [][Next]_vars

----------------------------------------------------------------------------
(* Properties *)

StepOrder == <<"check", "allocate", "stamp", "format">>

\* C1: when the dependency check finds mkfs.vfat absent, the run ends at the
\* check with the dependency-missing message and exit status 1, and the image
\* file is what it was when the run started: nothing was allocated, no boot
\* sector was built or written, and the formatter was not invoked.
C1_MissingToolLeavesImageAlone ==
    (~toolPresent /\ pc # "check") =>
        /\ pc = "exited"
        /\ exitStatus = <<1>>
        /\ raised = "SystemExit"
        /\ stdout = <<"mkfs.vfat command not found">>
        /\ file = preexisting
        /\ steps = <<>>
        /\ boot_sector = <<>>
        /\ ~formatterInvoked

C1_Witness ==
    /\ ~toolPresent
    /\ pc = "exited"
    /\ preexisting.exists
    /\ preexisting.len > 0
    /\ preexisting.nz # {}

\* C2: once the allocation has succeeded (and until the boot sector is
\* written) the image exists, is exactly 131040 * 512 = 67,092,480 bytes long
\* and holds no non-zero byte, whatever file was at the path before.
C2_AllocatedImageIsAllZero ==
    (steps = <<"check", "allocate">> /\ pc # "exited") =>
        /\ file.exists
        /\ file.len = image_size
        /\ file.len = 67092480
        /\ file.nz = {}

C2_Witness ==
    /\ pc = "stamp"
    /\ steps = <<"check", "allocate">>
    /\ preexisting.len > image_size
    /\ \E p \in preexisting.nz : p[1] >= image_size

\* C3: the boot-sector write (complete, or failing part-way) leaves the
\* length of the image at 67,092,480 bytes and changes no byte at offset
\* 512 or beyond; the buffer written is at most 512 bytes long.
C3_StampTouchesOnlyFirstSector ==
    [][pc = "stamp" =>
          /\ Len(boot_sector) <= 512
          /\ file.len = image_size
          /\ file'.exists
          /\ file'.len = file.len
          /\ \A p \in file.nz \cup file'.nz :
                p[1] >= 512 => ByteAt(file', p[1]) = ByteAt(file, p[1])]_vars

C3_Witness ==
    /\ pc = "format"
    /\ steps = <<"check", "allocate", "stamp">>
    /\ \E p \in file.nz : p[1] < 512

\* C4: the buffer handed to the write is exactly 512 bytes long and ends in
\* 0x55, 0xAA, and after the write bytes 510 and 511 of the image are 0x55
\* and 0xAA.
C4_SignatureAtEndOfSector ==
    /\ pc \in {"stamp", "format"} =>
          /\ Len(boot_sector) = 512
          /\ At(boot_sector, 510) = 85
          /\ At(boot_sector, 511) = 170
    /\ pc = "format" =>
          /\ ByteAt(file, 510) = 85
          /\ ByteAt(file, 511) = 170

C4_Witness ==
    /\ pc = "format"
    /\ Len(fieldWrites) = 15
    /\ fieldWrites[15].field = "fat_signature"

\* the statements of the construction that follow line 51
AfterSectorsPerFat ==
    {"sectors_per_track", "num_heads", "hidden_sectors", "volume_serial",
     "volume_label", "fat_signature", "stamp", "format"}

\* C5: from the sectors-per-FAT write on, byte 21 of the boot sector is 0xF8,
\* the little-endian 16-bit field at 22..23 is 64 and byte 16 is 2, and the
\* image holds the same values after the boot-sector write.
C5_FixedGeometryBytes ==
    /\ pc \in AfterSectorsPerFat =>
          /\ At(boot_sector, 21) = 248
          /\ At(boot_sector, 22) + 256 * At(boot_sector, 23) = 64
          /\ At(boot_sector, 16) = 2
    /\ pc = "format" =>
          /\ ByteAt(file, 21) = 248
          /\ ByteAt(file, 22) + 256 * ByteAt(file, 23) = 64
          /\ ByteAt(file, 16) = 2

C5_Witness ==
    /\ pc = "format"
    /\ \E w \in 1..Len(fieldWrites) :
          /\ fieldWrites[w].field = "total_sectors"
          /\ fieldWrites[w].lo <= 21
          /\ fieldWrites[w].hi > 22

\* C6 (as claimed): in the boot sector written to the image bytes 19 and 20,
\* the 16-bit total-sector field, are both zero.
C6_SmallSectorCountIsZero ==
    pc = "format" => (ByteAt(file, 19) = 0 /\ ByteAt(file, 20) = 0)

\* C7 (as claimed): the process exits non-zero in exactly two cases, the tool
\* missing at the check or the formatter returning non-zero, and with zero in
\* every other run.
C7_ExactlyTwoNonZeroCases ==
    pc = "exited" =>
        (exitStatus # <<0>> <=>
            (~toolPresent \/ (formatterRc # <<>> /\ formatterRc # <<0>>)))

\* C7 (amended): the process exits with zero exactly when the check passed and
\* the formatter ran and returned 0; it exits with 1 when the tool is missing
\* at the check, when the formatter returns non-zero, and also when an
\* OSError goes uncaught (allocation or boot-sector write failing, or the
\* formatter not starting after the check passed).
C7_ExitStatus ==
    pc = "exited" =>
        /\ exitStatus \in {<<0>>, <<1>>}
        /\ exitStatus = <<0>> <=> (toolPresent /\ formatterRc = <<0>>)
        /\ exitStatus = <<1>> <=>
              \/ ~toolPresent
              \/ raised = "OSError"
              \/ (formatterRc # <<>> /\ formatterRc # <<0>>)

C7_Witness ==
    /\ pc = "exited"
    /\ toolPresent
    /\ raised = "OSError"
    /\ exitStatus = <<1>>
    /\ formatterRc = <<>>

\* C8: the steps complete in the order check, allocate, stamp, format, no
\* step is taken after the process has exited, and the formatter is invoked
\* only when check, allocation and boot-sector write have all completed and
\* the image is 67,092,480 bytes long with the boot sector in its first 512
\* bytes.
C8_FormatterOnlyAfterAllSteps ==
    [][/\ pc # "exited"
       /\ steps' # steps =>
             /\ Len(steps) < Len(StepOrder)
             /\ steps' = Append(steps, StepOrder[Len(steps) + 1])
       /\ (formatterInvoked' /\ ~formatterInvoked) =>
             /\ steps = <<"check", "allocate", "stamp">>
             /\ file.exists
             /\ file.len = image_size
             /\ Len(boot_sector) = 512
             /\ \A o \in 0..511 : ByteAt(file, o) = At(boot_sector, o)
       /\ (raised' # "none" /\ pc # "format") =>
             (pc' = "exited" /\ ~formatterInvoked')]_vars

C8_Witness ==
    /\ pc = "exited"
    /\ raised = "OSError"
    /\ steps = <<"check">>
    /\ file.exists
    /\ file.len < image_size
    /\ ~formatterInvoked

\* C9 (as claimed): bytes 43..53 of the boot sector written to the image are
\* a space-padded ASCII label: every byte is below 0x80 and none is 0x00.
C9_LabelIsSpacePaddedAscii ==
    pc = "format" =>
        \A o \in 43..53 : ByteAt(file, o) < 128 /\ ByteAt(file, o) # 0

\* C10 (as claimed): no two assignments of the construction store into a
\* common byte offset, and no assignment changes the length of the buffer.
C10_FieldWritesDisjoint ==
    \A i, j \in 1..Len(fieldWrites) :
        /\ fieldWrites[i].lenBefore = 512
        /\ fieldWrites[i].lenAfter = 512
        /\ i < j => \/ fieldWrites[i].hi <= fieldWrites[j].lo
                    \/ fieldWrites[j].hi <= fieldWrites[i].lo

====
